---------------------------- MODULE Spec2Model ----------------------------
(***************************************************************************)
(* The APC1 wire codec (apc1-core): the command encoders of request.rs,    *)
(* the two response decoders and the device error display of response.rs,  *)
(* and the callers of the codec: the command line tool (apc1-cli) and the   *)
(* embedded driver (apc1-embedded).                                         *)
(* Buffers are sequences of bytes; Rust's index i is TLA+'s index i + 1.   *)
(* A u32 is kept as two and a u64 as four 16-bit limbs, most significant   *)
(* first, so that no value leaves the range of TLC's 32-bit integers.     *)
(***************************************************************************)
EXTENDS Integers, Sequences, FiniteSets, TLC

\* The codec under a device and a line that compose and corrupt frames.
VARIABLES request, shown, frame, buf, sent, stage, sets, last, res, probe

\* A caller: main of apc1-cli with its tasks, or Apc1Sensor::measurement.
VARIABLES caller, pc, bus, answer, mbuf, modres, read_tries, device, resetSent,
          nread, okFrames, errFrames, rpc, queue, wpc, recvCount, lastRecv,
          rows, dbFails

codecVars == <<request, shown, frame, buf, sent, stage, sets, last, res, probe>>

cliVars == <<caller, pc, bus, answer, mbuf, modres, read_tries, device, resetSent,
             nread, okFrames, errFrames, rpc, queue, wpc, recvCount, lastRecv,
             rows, dbFails>>

vars == <<codecVars, cliVars>>

-----------------------------------------------------------------------------
(* Bounds of the model.                                                    *)

\* How many bytes of a frame the device side may overwrite before sealing.
MaxSets == 1

\* How many synthetic frames with pairwise different neighbouring bytes.
NumSeeds == 2

\* How many frames the sensor reader of the Log subcommand reads, and how
\* many times the embedded driver is called.
MaxFrames == 68

\* How many frames of one stream the device lets fail to decode.
MaxBad == 2

\* How many inserts the database lets fail.
MaxDbFails == 1

-----------------------------------------------------------------------------
(* Bytes and fixed-width integers.                                         *)

Byte == 0..255

\* value[i] with Rust's zero-based index.
At(value, i) == value[i + 1]

Pow2(k) == CASE k = 0 -> 1 [] k = 1 -> 2 [] k = 2 -> 4 [] k = 3 -> 8
             [] k = 4 -> 16 [] k = 5 -> 32 [] k = 6 -> 64 [] k = 7 -> 128

Bit(x, k) == (x \div Pow2(k)) % 2

RECURSIVE XorFrom(_, _, _)
XorFrom(a, b, k) ==
    IF k > 7 THEN 0
    ELSE ((Bit(a, k) + Bit(b, k)) % 2) * Pow2(k) + XorFrom(a, b, k + 1)

\* u8 ^ u8
Xor8(a, b) == XorFrom(a, b, 0)

\* u16::saturating_add
SaturatingAdd16(acc, elem) == IF acc + elem > 65535 THEN 65535 ELSE acc + elem

\* u16::wrapping_add
WrappingAdd16(acc, elem) == (acc + elem) % 65536

\* u16::from_be_bytes([hi, lo])
U16FromBe(hi, lo) == hi * 256 + lo

\* u16::to_be_bytes
U16ToBe(x) == <<x \div 256, x % 256>>

\* u32::from_be_bytes, as two 16-bit limbs
U32FromBe(b0, b1, b2, b3) == <<U16FromBe(b0, b1), U16FromBe(b2, b3)>>

\* u64::from_be_bytes, as four 16-bit limbs
U64FromBe(b0, b1, b2, b3, b4, b5, b6, b7) ==
    <<U16FromBe(b0, b1), U16FromBe(b2, b3), U16FromBe(b4, b5), U16FromBe(b6, b7)>>

\* `b as char` followed by collection into a String: the string's UTF-8 bytes.
Utf8OfChar(c) == IF c < 128 THEN <<c>> ELSE <<192 + (c \div 64), 128 + (c % 64)>>

RECURSIVE CollectString(_)
CollectString(chars) ==
    IF chars = <<>> THEN <<>>
    ELSE Utf8OfChar(Head(chars)) \o CollectString(Tail(chars))

-----------------------------------------------------------------------------
(* request.rs: the command encoders.                                       *)

MAGIC == <<66, 77>>              \* 0x42 0x4D
TOGGLE_DEVICE_MODE == 228        \* 0xE4
MEASUREMENT_MODE == 1
IDLE_MODE == 0
READ_MODULE_ID == 233            \* 0xE9
RESET_DEVICE == 15               \* 0x0F
TOGGLE_MEASUREMENT_MODE == 225   \* 0xE1
ACTIVE_MEASUREMENT_MODE == 1
PASSIVE_MEASUREMENT_MODE == 0
REQUEST_MEASUREMENT == 226       \* 0xE2

I2cCommand == {"SetIdleMode", "SetActiveMode", "Reset", "ReadModuleId"}

UartCommand == {"SetActiveMeasurement", "SetPassiveMeasurement", "RequestMeasurement",
                "SetIdleMode", "SetActiveMode", "ReadModuleId"}

RECURSIVE FoldRange(_, _, _)
\* The wrapping sum of payload[lo..hi] (one-based, inclusive).  wrapping_add
\* on u16 is addition modulo 2^16, which is associative, so the fold's chain
\* of additions is evaluated here as a balanced tree of the same additions.
FoldRange(payload, lo, hi) ==
    IF lo > hi THEN 0
    ELSE IF lo = hi THEN WrappingAdd16(0, payload[lo])
    ELSE LET mid == (lo + hi) \div 2
         IN  WrappingAdd16(FoldRange(payload, lo, mid), FoldRange(payload, mid + 1, hi))

\* payload.iter().take(n).fold(0_u16, |acc, elem| acc.wrapping_add(*elem as u16))
FoldChecksum(payload, n) == FoldRange(payload, 1, n)

\* A plausible slip: the checksum written low byte first.
CalculateChecksumLittleEndian(payload) ==
    LET checksum == FoldChecksum(payload, Len(payload))
    IN  <<checksum % 256, checksum \div 256>>

calculate_checksum(payload) == U16ToBe(FoldChecksum(payload, Len(payload)))

\* A plausible slip: the mode written to Mode High instead of Mode Low.
CommandFrameModeHigh(opcode, mode) ==
    LET payload == <<MAGIC[1], MAGIC[2], opcode, mode, 0>>
    IN  payload \o calculate_checksum(payload)

\* let mut command = [MAGIC[0], MAGIC[1], opcode, 0, mode, 0, 0];
\* split_at_mut(5); checksum.copy_from_slice(calculate_checksum(payload))
CommandFrame(opcode, mode) ==
    LET payload == <<MAGIC[1], MAGIC[2], opcode, 0, mode>>
    IN  payload \o calculate_checksum(payload)

I2cToBytes(cmd) ==
    CASE cmd = "SetIdleMode"   -> CommandFrame(TOGGLE_DEVICE_MODE, IDLE_MODE)
      [] cmd = "SetActiveMode" -> CommandFrame(TOGGLE_DEVICE_MODE, MEASUREMENT_MODE)
      [] cmd = "ReadModuleId"  -> CommandFrame(READ_MODULE_ID, 0)
      [] cmd = "Reset"         -> CommandFrame(TOGGLE_DEVICE_MODE, RESET_DEVICE)

UartToBytes(cmd) ==
    CASE cmd = "SetActiveMeasurement"  ->
             CommandFrame(TOGGLE_MEASUREMENT_MODE, ACTIVE_MEASUREMENT_MODE)
      [] cmd = "SetPassiveMeasurement" ->
             CommandFrame(TOGGLE_MEASUREMENT_MODE, PASSIVE_MEASUREMENT_MODE)
      [] cmd = "RequestMeasurement"    -> CommandFrame(REQUEST_MEASUREMENT, 0)
      [] cmd = "SetIdleMode"           -> CommandFrame(TOGGLE_DEVICE_MODE, IDLE_MODE)
      [] cmd = "SetActiveMode"         -> CommandFrame(TOGGLE_DEVICE_MODE, MEASUREMENT_MODE)
      [] cmd = "ReadModuleId"          -> CommandFrame(READ_MODULE_ID, 0)

-----------------------------------------------------------------------------
(* response.rs: Measurement::try_from.                                     *)

MEASUREMENT_LEN == 64
MODULE_LEN == 23

MeasurementHeader == <<66, 77, 0, 60>>   \* [0x42, 0x4D, 0x00, 0x3C]
ModuleHeader == <<66, 77, 0, 19>>        \* [0x42, 0x4D, 0x00, 0x13]

\* A plausible slip: take(61), one byte short of the checksummed region.
MeasurementActualChecksumShort(value) == FoldChecksum(value, 61)

\* value.iter().take(62).fold(0_u16, |acc, elem| acc.wrapping_add(*elem as u16))
MeasurementActualChecksum(value) == FoldChecksum(value, 62)

\* u16::from_be_bytes([value[62], value[63]])
MeasurementExpectedChecksum(value) == U16FromBe(At(value, 62), At(value, 63))

\* A plausible slip: the error code taken from the firmware byte next to it.
MeasurementDeviceErrorWrongByte(value) == [tag |-> "Device", code |-> At(value, 60)]

\* Err(Self::Error::Device(DeviceErrorCode(value[61])))
MeasurementDeviceError(value) == [tag |-> "Device", code |-> At(value, 61)]

\* The struct literal of the Ok branch, field by field as written.
MeasurementFields(value) ==
    [ pm1_0            |-> U16FromBe(At(value, 4), At(value, 5)),
      pm2_5            |-> U16FromBe(At(value, 6), At(value, 7)),
      pm10             |-> U16FromBe(At(value, 8), At(value, 9)),
      pm1_0_in_air     |-> U16FromBe(At(value, 10), At(value, 11)),
      pm2_5_in_air     |-> U16FromBe(At(value, 12), At(value, 12)),
      pm10_in_air      |-> U16FromBe(At(value, 14), At(value, 15)),
      um_0_3_particles |-> U16FromBe(At(value, 16), At(value, 17)),
      um_0_5_particles |-> U16FromBe(At(value, 18), At(value, 19)),
      um_1_particles   |-> U16FromBe(At(value, 20), At(value, 21)),
      um_2_5_particles |-> U16FromBe(At(value, 22), At(value, 23)),
      um_5_particles   |-> U16FromBe(At(value, 24), At(value, 25)),
      um_10_particles  |-> U16FromBe(At(value, 26), At(value, 27)),
      tvoc             |-> U16FromBe(At(value, 28), At(value, 29)),
      eco2             |-> U16FromBe(At(value, 30), At(value, 31)),
      _reserved        |-> U16FromBe(At(value, 32), At(value, 33)),
      t_comp           |-> U16FromBe(At(value, 34), At(value, 35)),
      rh_comp          |-> U16FromBe(At(value, 36), At(value, 37)),
      t_raw            |-> U16FromBe(At(value, 38), At(value, 39)),
      rh_raw           |-> U16FromBe(At(value, 40), At(value, 41)),
      rs_0             |-> U32FromBe(At(value, 42), At(value, 43), At(value, 44), At(value, 45)),
      rs_1             |-> U32FromBe(At(value, 46), At(value, 47), At(value, 48), At(value, 49)),
      rs_2             |-> U32FromBe(At(value, 50), At(value, 51), At(value, 52), At(value, 53)),
      rs_3             |-> U32FromBe(At(value, 54), At(value, 55), At(value, 56), At(value, 57)),
      aqi              |-> At(value, 58),
      __reserved       |-> At(value, 59),
      version          |-> At(value, 60) ]

\* A plausible slip: the header compared before the checksum.
MeasurementTryFromHeaderFirst(value) ==
    LET expected_checksum == MeasurementExpectedChecksum(value)
        actual_checksum == MeasurementActualChecksum(value)
    IN  IF SubSeq(value, 1, 4) # MeasurementHeader
        THEN [tag |-> "InvalidHeader"]
        ELSE IF expected_checksum # actual_checksum
        THEN [tag |-> "Checksum", expected |-> expected_checksum,
              actual |-> actual_checksum]
        ELSE IF At(value, 61) # 0
        THEN MeasurementDeviceError(value)
        ELSE [tag |-> "Ok", measurement |-> MeasurementFields(value)]

\* A plausible slip: the two fields of Error::Checksum exchanged.
MeasurementTryFromSwappedFields(value) ==
    LET expected_checksum == MeasurementExpectedChecksum(value)
        actual_checksum == MeasurementActualChecksum(value)
    IN  IF expected_checksum # actual_checksum
        THEN [tag |-> "Checksum", expected |-> actual_checksum,
              actual |-> expected_checksum]
        ELSE IF SubSeq(value, 1, 4) # MeasurementHeader
        THEN [tag |-> "InvalidHeader"]
        ELSE IF At(value, 61) # 0
        THEN MeasurementDeviceError(value)
        ELSE [tag |-> "Ok", measurement |-> MeasurementFields(value)]

MeasurementTryFrom(value) ==
    LET expected_checksum == MeasurementExpectedChecksum(value)
        actual_checksum == MeasurementActualChecksum(value)
    IN  IF expected_checksum # actual_checksum
        THEN [tag |-> "Checksum", expected |-> expected_checksum,
              actual |-> actual_checksum]
        ELSE IF SubSeq(value, 1, 4) # MeasurementHeader
        THEN [tag |-> "InvalidHeader"]
        ELSE IF At(value, 61) # 0
        THEN MeasurementDeviceError(value)
        ELSE [tag |-> "Ok", measurement |-> MeasurementFields(value)]

-----------------------------------------------------------------------------
(* response.rs: Module::try_from.                                          *)

\* value.iter().take(20).fold(...)
ModuleActualChecksumShort(value) == FoldChecksum(value, 20)

\* value.iter().take(21).fold(0_u16, |acc, elem| acc.wrapping_add(*elem as u16))
ModuleActualChecksum(value) == FoldChecksum(value, 21)

\* u16::from_be_bytes([value[21], value[22]])
ModuleExpectedChecksum(value) == U16FromBe(At(value, 21), At(value, 22))

\* A plausible slip: the serial number read as little-endian.
ModuleFieldsLittleEndianSerial(value) ==
    [ name_and_type    |-> CollectString(SubSeq(value, 5, 10)),
      serial_number    |-> U64FromBe(At(value, 17), At(value, 16), At(value, 15),
                                     At(value, 14), At(value, 13), At(value, 12),
                                     At(value, 11), At(value, 10)),
      delimiter        |-> At(value, 18),
      fw_version_major |-> At(value, 19),
      fw_version_minor |-> At(value, 20) ]

\* The struct literal of the Ok branch. value.iter().skip(4).take(6) is
\* value[4..10); a char is kept as its code point.
ModuleFields(value) ==
    [ name_and_type    |-> CollectString(SubSeq(value, 5, 10)),
      serial_number    |-> U64FromBe(At(value, 10), At(value, 11), At(value, 12),
                                     At(value, 13), At(value, 14), At(value, 15),
                                     At(value, 16), At(value, 17)),
      delimiter        |-> At(value, 18),
      fw_version_major |-> At(value, 19),
      fw_version_minor |-> At(value, 20) ]

\* A plausible slip: a name byte outside ASCII rejected with Error::InvalidName.
ModuleTryFromAsciiOnly(value) ==
    LET expected_checksum == ModuleExpectedChecksum(value)
        actual_checksum == ModuleActualChecksum(value)
    IN  IF expected_checksum # actual_checksum
        THEN [tag |-> "Checksum", expected |-> expected_checksum,
              actual |-> actual_checksum]
        ELSE IF SubSeq(value, 1, 4) # ModuleHeader
        THEN [tag |-> "InvalidHeader"]
        ELSE IF \E i \in 4..9 : At(value, i) > 127
        THEN [tag |-> "InvalidName"]
        ELSE [tag |-> "Ok", module |-> ModuleFields(value)]

ModuleTryFrom(value) ==
    LET expected_checksum == ModuleExpectedChecksum(value)
        actual_checksum == ModuleActualChecksum(value)
    IN  IF expected_checksum # actual_checksum
        THEN [tag |-> "Checksum", expected |-> expected_checksum,
              actual |-> actual_checksum]
        ELSE IF SubSeq(value, 1, 4) # ModuleHeader
        THEN [tag |-> "InvalidHeader"]
        ELSE [tag |-> "Ok", module |-> ModuleFields(value)]

-----------------------------------------------------------------------------
(* response.rs: impl Display for DeviceErrorCode.                          *)

FaultLabel ==
    << "Too many fan restarts", "Fan-speed low", "Photodiode", "Fan stopped",
       "Laser", "VOC sensor", "Temperature or Humidity sensor" >>

\* The seven "{label}: {}" lines; each argument is self.0 ^ (1 << k), a u8
\* formatted in decimal.
DeviceErrorCodeFmt(code) ==
    [k \in 0..6 |-> [label |-> FaultLabel[k + 1],
                     value |-> ToString(Xor8(code, Pow2(k)))]]

-----------------------------------------------------------------------------
(* The frames the transport delivers.  The decoders take any 23 or 64      *)
(* bytes; the model starts from the frames of the repository's tests, the  *)
(* zeroed buffer of the callers, and synthetic frames, and lets the device *)
(* side overwrite bytes and seal, and the line corrupt a sealed frame once.*)

\* test::try_from_valid_measurement
ValidMeasurement ==
    << 66, 77, 0, 60, 0, 0, 0, 0, 0, 0, 0, 0, 0, 0, 0, 0, 1, 80, 0, 100, 0, 20, 0, 10, 0, 0,
       0, 0, 0, 37, 1, 173, 0, 1, 0, 202, 2, 69, 0, 251, 1, 181, 0, 3, 101, 146, 0, 0, 0, 1,
       0, 12, 19, 208, 0, 0, 147, 102, 1, 0, 35, 0, 8, 59 >>

\* test::try_from_measurement_invalid_checksum
InvalidChecksumMeasurement ==
    << 66, 77, 0, 60, 0, 0, 0, 0, 0, 0, 0, 1, 0, 0, 0, 0, 1, 80, 0, 100, 0, 20, 0, 10, 0, 0,
       0, 0, 0, 37, 1, 173, 0, 1, 0, 202, 2, 69, 0, 251, 1, 181, 0, 3, 101, 146, 0, 0, 0, 1,
       0, 12, 19, 208, 0, 0, 147, 102, 1, 0, 35, 0, 8, 59 >>

\* test::try_from_measurement_invalid_header
InvalidHeaderMeasurement ==
    << 77, 66, 0, 23, 0, 0, 0, 0, 0, 0, 0, 0, 0, 0, 0, 0, 1, 80, 0, 100, 0, 20, 0, 10, 0, 0,
       0, 0, 0, 37, 1, 173, 0, 1, 0, 202, 2, 69, 0, 251, 1, 181, 0, 3, 101, 146, 0, 0, 0, 1,
       0, 12, 19, 208, 0, 0, 147, 102, 1, 0, 35, 0, 8, 22 >>

\* test::try_from_module_valid
ValidModule ==
    << 66, 77, 0, 19, 65, 80, 67, 49, 45, 73, 8, 110, 169, 135, 242, 77, 68, 134, 45, 0, 35,
       6, 28 >>

\* test::try_from_module_invalid_checksum
InvalidChecksumModule ==
    << 66, 77, 0, 19, 65, 80, 67, 49, 46, 73, 8, 110, 169, 135, 242, 77, 68, 134, 45, 0, 35,
       6, 28 >>

\* test::try_from_module_invalid_header
InvalidHeaderModule ==
    << 67, 77, 0, 19, 65, 80, 67, 49, 46, 73, 8, 110, 169, 135, 242, 77, 68, 134, 45, 0, 35,
       6, 30 >>

FrameLen(kind) == IF kind = "module" THEN MODULE_LEN ELSE MEASUREMENT_LEN

FrameHeader(kind) == IF kind = "module" THEN ModuleHeader ELSE MeasurementHeader

\* let mut buf: [u8; N] = [0; N];
ZeroFrame(kind) == [i \in 1..FrameLen(kind) |-> 0]

\* A frame with the right header whose neighbouring data bytes all differ,
\* no error flag, and the trailing checksum still to be written.
SyntheticFrame(kind, seed) ==
    [i \in 1..FrameLen(kind) |->
        IF i <= 4 THEN FrameHeader(kind)[i]
        ELSE IF i > FrameLen(kind) - 2 THEN 0
        ELSE IF kind = "measurement" /\ i = 62 THEN 0
        ELSE (91 * seed + 37 * i) % 256]

BaseFrames(kind) ==
    (IF kind = "module"
     THEN {ValidModule, InvalidHeaderModule}
     ELSE {ValidMeasurement, InvalidHeaderMeasurement})
    \cup {ZeroFrame(kind)}
    \cup {SyntheticFrame(kind, seed) : seed \in 1..NumSeeds}

\* The <<offset, value>> pairs the device side may write into a frame.
EditSites(kind) ==
    IF kind = "module"
    THEN { <<0, 77>>, <<1, 66>>, <<2, 1>>, <<3, 60>>,
           <<4, 0>>, <<5, 128>>, <<9, 255>>, <<10, 255>>, <<18, 200>>, <<19, 7>>,
           <<21, 0>>, <<22, 0>> }
    ELSE { <<0, 77>>, <<1, 66>>, <<2, 1>>, <<3, 19>>,
           <<11, 255>>, <<12, 1>>, <<13, 2>>, <<42, 255>>,
           <<61, 1>>, <<61, 64>>, <<61, 128>>, <<61, 255>>,
           <<62, 0>>, <<63, 0>> }

NoRequest == [set |-> "none", cmd |-> "none", bytes |-> <<>>]
NoOp == [op |-> "none", pos |-> 0, bit |-> 0]
NoResult == [tag |-> "None"]
NoDisplay == [code |-> 0, lines |-> <<>>]
NoProbe == [payload |-> <<>>, sum |-> <<>>]

\* Payloads handed to calculate_checksum on its own: n bytes starting at v
\* and rising by step, so that the longer ones sum to more than 2^16.
ProbePayload(n, v, step) == [i \in 1..n |-> (v + step * (i - 1)) % 256]

ProbeLens == {0, 1, 5, 62, 257, 258, 300}

\* The decoder the caller applies to a buffer of this length.
TryFrom(kind, value) ==
    IF kind = "module" THEN ModuleTryFrom(value) ELSE MeasurementTryFrom(value)

-----------------------------------------------------------------------------
(* The state machine.  Every step that puts a frame into the caller's      *)
(* buffer ends with the caller decoding it, as read_sensor, read_module    *)
(* and Apc1Sensor::measurement do: res is the decoder's answer for buf.    *)

CodecIdle ==
    /\ request = NoRequest
    /\ shown = NoDisplay
    /\ frame = "none"
    /\ buf = <<>>
    /\ sent = <<>>
    /\ stage = "idle"
    /\ sets = 0
    /\ last = NoOp
    /\ res = NoResult
    /\ probe = NoProbe

\* No caller has been started.
CliOff ==
    /\ caller = "off"
    /\ pc = "off"
    /\ bus = <<>>
    /\ answer = <<>>
    /\ mbuf = <<>>
    /\ modres = NoResult
    /\ read_tries = 0
    /\ device = NoResult
    /\ resetSent = FALSE
    /\ nread = 0
    /\ okFrames = 0
    /\ errFrames = 0
    /\ rpc = "off"
    /\ queue = <<>>
    /\ wpc = "off"
    /\ recvCount = 0
    /\ lastRecv = 0
    /\ rows = 0
    /\ dbFails = 0

Init == CodecIdle /\ CliOff

\* i2c::Command::to_bytes
I2cEncode(cmd) ==
    /\ stage = "idle"
    /\ request' = [set |-> "i2c", cmd |-> cmd, bytes |-> I2cToBytes(cmd)]
    /\ shown' = NoDisplay
    /\ probe' = NoProbe
    /\ UNCHANGED <<frame, buf, sent, stage, sets, last, res>>
    /\ UNCHANGED cliVars

\* uart::Command::to_bytes
UartEncode(cmd) ==
    /\ stage = "idle"
    /\ request' = [set |-> "uart", cmd |-> cmd, bytes |-> UartToBytes(cmd)]
    /\ shown' = NoDisplay
    /\ probe' = NoProbe
    /\ UNCHANGED <<frame, buf, sent, stage, sets, last, res>>
    /\ UNCHANGED cliVars

\* Display of a DeviceErrorCode; try_from only ever builds one from a
\* non-zero byte 61.
DisplayDeviceError(code) ==
    /\ stage = "idle"
    /\ shown' = [code |-> code, lines |-> DeviceErrorCodeFmt(code)]
    /\ request' = NoRequest
    /\ probe' = NoProbe
    /\ UNCHANGED <<frame, buf, sent, stage, sets, last, res>>
    /\ UNCHANGED cliVars

\* calculate_checksum on a payload of any length.
Checksum(payload) ==
    /\ stage = "idle"
    /\ probe' = [payload |-> payload, sum |-> calculate_checksum(payload)]
    /\ request' = NoRequest
    /\ shown' = NoDisplay
    /\ UNCHANGED <<frame, buf, sent, stage, sets, last, res>>
    /\ UNCHANGED cliVars

\* The device answers with a frame of one of the two shapes.
Receive(kind, base) ==
    /\ stage = "idle"
    /\ frame' = kind
    /\ buf' = base
    /\ stage' = "composed"
    /\ request' = NoRequest
    /\ shown' = NoDisplay
    /\ res' = TryFrom(kind, base)
    /\ probe' = NoProbe
    /\ UNCHANGED <<sent, sets, last>>
    /\ UNCHANGED cliVars

\* The device side writes one byte of the frame.
SetByte(i, v) ==
    /\ stage = "composed"
    /\ sets < MaxSets
    /\ At(buf, i) # v
    /\ buf' = [buf EXCEPT ![i + 1] = v]
    /\ sets' = sets + 1
    /\ last' = [op |-> "set", pos |-> i, bit |-> 0]
    /\ res' = TryFrom(frame, buf')
    /\ UNCHANGED <<request, shown, frame, sent, stage, probe>>
    /\ UNCHANGED cliVars

\* The device side writes the checksum of all bytes sent before it into the
\* last two bytes, high byte first.
Seal ==
    /\ stage = "composed"
    /\ LET n == FrameLen(frame)
           sum == calculate_checksum(SubSeq(buf, 1, n - 2))
       IN  buf' = [buf EXCEPT ![n - 1] = sum[1], ![n] = sum[2]]
    /\ sent' = buf'
    /\ stage' = "sealed"
    /\ last' = [op |-> "seal", pos |-> 0, bit |-> 0]
    /\ res' = TryFrom(frame, buf')
    /\ UNCHANGED <<request, shown, frame, sets, probe>>
    /\ UNCHANGED cliVars

\* The line flips one bit of the sealed frame.
FlipBit(i, k) ==
    /\ stage = "sealed"
    /\ buf' = [buf EXCEPT ![i + 1] = Xor8(@, Pow2(k))]
    /\ stage' = "corrupted"
    /\ last' = [op |-> "flip", pos |-> i, bit |-> k]
    /\ res' = TryFrom(frame, buf')
    /\ UNCHANGED <<request, shown, frame, sent, sets, probe>>
    /\ UNCHANGED cliVars

\* The line raises one byte of the checksummed region by one.
Increment(i) ==
    /\ stage = "sealed"
    /\ At(buf, i) < 255
    /\ buf' = [buf EXCEPT ![i + 1] = @ + 1]
    /\ stage' = "corrupted"
    /\ last' = [op |-> "inc", pos |-> i, bit |-> 0]
    /\ res' = TryFrom(frame, buf')
    /\ UNCHANGED <<request, shown, frame, sent, sets, probe>>
    /\ UNCHANGED cliVars

\* The line transposes two different bytes of the checksummed region of a
\* frame the device side did not edit, sealed or not.
Swap(i, j) ==
    /\ stage \in {"composed", "sealed"}
    /\ sets = 0
    /\ At(buf, i) # At(buf, j)
    /\ buf' = [buf EXCEPT ![i + 1] = At(buf, j), ![j + 1] = At(buf, i)]
    /\ sent' = buf
    /\ stage' = "corrupted"
    /\ last' = [op |-> "swap", pos |-> i, bit |-> j]
    /\ res' = TryFrom(frame, buf')
    /\ UNCHANGED <<request, shown, frame, sets, probe>>
    /\ UNCHANGED cliVars

Next ==
    \/ \E cmd \in I2cCommand : I2cEncode(cmd)
    \/ \E cmd \in UartCommand : UartEncode(cmd)
    \/ \E code \in 1..255 : DisplayDeviceError(code)
    \/ \E kind \in {"module", "measurement"} : \E base \in BaseFrames(kind) :
          Receive(kind, base)
    \/ \E site \in EditSites(frame) : SetByte(site[1], site[2])
    \/ Seal
    \/ /\ stage = "sealed"
       /\ \E i \in 0..(FrameLen(frame) - 1) : \E k \in 0..7 : FlipBit(i, k)
    \/ /\ stage = "sealed"
       /\ \E i \in 0..(FrameLen(frame) - 3) : Increment(i)
    \/ \E n \in ProbeLens : \E v \in {0, 1, 255} : \E step \in {0, 1} :
          Checksum(ProbePayload(n, v, step))
    \/ /\ stage \in {"composed", "sealed"}
       /\ \E i \in 0..(FrameLen(frame) - 3) : \E j \in (i + 1)..(FrameLen(frame) - 3) :
             Swap(i, j)

Spec == Init /\ [][Next]_vars

-----------------------------------------------------------------------------
(* The callers.  main of apc1-cli resets the device and runs one of three  *)
(* subcommands; Log ends in two tasks, read_sensor and write_results,      *)
(* joined by a bounded channel.  Apc1Sensor::measurement of apc1-embedded  *)
(* is a caller of its own.  Every bus transfer may fail.                   *)

COMMAND_BASE_ADDR == 64      \* 0x40
base_addr == 71              \* 0x47
MAX_READ_TRIES == 10
MEASUREMENT_READS == 300
CHANNEL_CAPACITY == 64

Callers == {"Module", "Measurement", "Log", "Embedded"}

\* A valid frame but for the error byte: byte 61 is 4, checksum adjusted.
DeviceErrorMeasurement ==
    [ValidMeasurement EXCEPT ![62] = 4, ![64] = 63]

\* What the device may answer to ReadModuleId.
ModuleAnswers == {ValidModule, InvalidChecksumModule, InvalidHeaderModule}

\* What the device may deliver to a 64-byte read.
StreamFrames ==
    {ValidMeasurement, InvalidChecksumMeasurement, InvalidHeaderMeasurement,
     DeviceErrorMeasurement}

\* The bytes of the command are taken last first.
WriteOpReversed(cmd, index) ==
    [op |-> "w", reg |-> COMMAND_BASE_ADDR + index,
     val |-> At(I2cToBytes(cmd), Len(I2cToBytes(cmd)) - 1 - index)]

\* dev.smbus_write_byte_data(COMMAND_BASE_ADDR + index, *byte) for the byte
\* at index of the command.
WriteOp(cmd, index) ==
    [op |-> "w", reg |-> COMMAND_BASE_ADDR + index, val |-> At(I2cToBytes(cmd), index)]

\* dev.smbus_read_byte_data(base_addr + i) returning val.
ReadOp(i, val) == [op |-> "r", reg |-> base_addr + i, val |-> val]

\* if read_tries > 10 { bail!(...) }
ModuleLoopGivesUp(tries) == tries > MAX_READ_TRIES

\* Err(e) => return Err(e.into())
ReadSensorReturnsError == "stopped"

\* Where read_sensor goes after Err(e): continue.
ReadSensorAfterError == "read"

\* Ok and Err both reach blocking_send.
ReadSensorSendsAlways(value) == "send"

\* Where read_sensor goes after a 64-byte frame was read.
ReadSensorAfterFrame(value) ==
    IF MeasurementTryFrom(value).tag = "Ok" THEN "send" ELSE ReadSensorAfterError

\* mpsc::Sender::blocking_send on a channel with room.
ChannelSend(q, item) == Append(q, item)

\* recv hands over the value sent last.
ChannelRecvNewest(q) == q[Len(q)]

\* What mpsc::Receiver::recv hands over.
ChannelRecv(q) == Head(q)

\* What recv leaves in the channel.
ChannelRest(q) == Tail(q)

\* recv is None as soon as the sender is dropped.
ChannelClosedOnDrop(q, dropped) == dropped

\* recv is None: no value is left and every sender was dropped.
ChannelClosed(q, dropped) == q = <<>> /\ dropped

\* Rows in the table after execute(&db) of one INSERT returned.
RowsAfterInsert(n, ok) == IF ok THEN n + 1 ELSE n

\* The caller c has been started.
CliStart(c) ==
    /\ caller = c
    /\ pc = (IF c = "Embedded" THEN "embedded" ELSE "open")
    /\ bus = <<>>
    /\ answer = <<>>
    /\ mbuf = <<>>
    /\ modres = NoResult
    /\ read_tries = 0
    /\ device = NoResult
    /\ resetSent = FALSE
    /\ nread = 0
    /\ okFrames = 0
    /\ errFrames = 0
    /\ rpc = "off"
    /\ queue = <<>>
    /\ wpc = "off"
    /\ recvCount = 0
    /\ lastRecv = 0
    /\ rows = 0
    /\ dbFails = 0

InitCli == CodecIdle /\ \E c \in Callers : CliStart(c)

\* LinuxI2CDevice::new(...)?
Open(ok) ==
    /\ pc = "open"
    /\ pc' = (IF ok THEN "reset" ELSE "failed")
    /\ UNCHANGED <<caller, bus, answer, mbuf, modres, read_tries, device, resetSent,
                   nread, okFrames, errFrames, rpc, queue, wpc, recvCount, lastRecv,
                   rows, dbFails>>
    /\ UNCHANGED codecVars

\* One turn of the loop writing Reset; after the last byte, the sleep.
WriteReset(ok) ==
    /\ pc = "reset"
    /\ IF ok
       THEN /\ bus' = Append(bus, WriteOp("Reset", Len(bus)))
            /\ resetSent' = (Len(bus') = Len(I2cToBytes("Reset")))
            /\ pc' = (IF resetSent' THEN "dispatch" ELSE "reset")
       ELSE /\ pc' = "failed"
            /\ UNCHANGED <<bus, resetSent>>
    /\ UNCHANGED <<caller, answer, mbuf, modres, read_tries, device,
                   nread, okFrames, errFrames, rpc, queue, wpc, recvCount, lastRecv,
                   rows, dbFails>>
    /\ UNCHANGED codecVars

\* match args.request
Dispatch ==
    /\ pc = "dispatch"
    /\ pc' = (CASE caller = "Module" -> "module_loop"
                [] caller = "Measurement" -> "measure"
                [] caller = "Log" -> "connect")
    /\ read_tries' = 0
    /\ bus' = <<>>
    /\ UNCHANGED <<caller, answer, mbuf, modres, device, resetSent,
                   nread, okFrames, errFrames, rpc, queue, wpc, recvCount, lastRecv,
                   rows, dbFails>>
    /\ UNCHANGED codecVars

\* PgPoolOptions::connect(...).await? and MIGRATIONS.run(&pool).await?
Connect(ok) ==
    /\ pc = "connect"
    /\ pc' = (IF ok THEN "log_loop" ELSE "failed")
    /\ UNCHANGED <<caller, bus, answer, mbuf, modres, read_tries, device, resetSent,
                   nread, okFrames, errFrames, rpc, queue, wpc, recvCount, lastRecv,
                   rows, dbFails>>
    /\ UNCHANGED codecVars

\* Request::Module: the head of the loop finds read_tries > 10.
Bail ==
    /\ pc = "module_loop"
    /\ ModuleLoopGivesUp(read_tries)
    /\ pc' = "failed"
    /\ UNCHANGED <<caller, bus, answer, mbuf, modres, read_tries, device, resetSent,
                   nread, okFrames, errFrames, rpc, queue, wpc, recvCount, lastRecv,
                   rows, dbFails>>
    /\ UNCHANGED codecVars

\* Either loop calls read_module; the device will answer with this frame.
CallReadModule(value) ==
    /\ pc \in {"module_loop", "log_loop"}
    /\ pc = "module_loop" => ~ModuleLoopGivesUp(read_tries)
    /\ pc' = "rm_write"
    /\ answer' = value
    /\ bus' = <<>>
    /\ mbuf' = <<>>
    /\ modres' = NoResult
    /\ UNCHANGED <<caller, read_tries, device, resetSent,
                   nread, okFrames, errFrames, rpc, queue, wpc, recvCount, lastRecv,
                   rows, dbFails>>
    /\ UNCHANGED codecVars

\* read_module: one turn of the loop writing ReadModuleId; after the last
\* byte, let mut buf = [0; 23].
RmWrite(ok) ==
    /\ pc = "rm_write"
    /\ IF ok
       THEN /\ bus' = Append(bus, WriteOp("ReadModuleId", Len(bus)))
            /\ IF Len(bus') = Len(I2cToBytes("ReadModuleId"))
               THEN pc' = "rm_read" /\ mbuf' = ZeroFrame("module")
               ELSE pc' = "rm_write" /\ mbuf' = mbuf
            /\ modres' = modres
       ELSE /\ modres' = [tag |-> "Bus"]
            /\ pc' = "rm_return"
            /\ UNCHANGED <<bus, mbuf>>
    /\ UNCHANGED <<caller, answer, read_tries, device, resetSent,
                   nread, okFrames, errFrames, rpc, queue, wpc, recvCount, lastRecv,
                   rows, dbFails>>
    /\ UNCHANGED codecVars

\* read_module: one turn of the loop reading the 23 registers.
RmRead(ok) ==
    /\ pc = "rm_read"
    /\ LET i == Len(bus) - Len(I2cToBytes("ReadModuleId"))
       IN  IF ok
           THEN /\ mbuf' = [mbuf EXCEPT ![i + 1] = At(answer, i)]
                /\ bus' = Append(bus, ReadOp(i, At(answer, i)))
                /\ pc' = (IF i + 1 = MODULE_LEN THEN "rm_decode" ELSE "rm_read")
                /\ modres' = modres
           ELSE /\ modres' = [tag |-> "Bus"]
                /\ pc' = "rm_return"
                /\ UNCHANGED <<bus, mbuf>>
    /\ UNCHANGED <<caller, answer, read_tries, device, resetSent,
                   nread, okFrames, errFrames, rpc, queue, wpc, recvCount, lastRecv,
                   rows, dbFails>>
    /\ UNCHANGED codecVars

\* read_module: Module::try_from(&buf)
RmDecode ==
    /\ pc = "rm_decode"
    /\ modres' = ModuleTryFrom(mbuf)
    /\ pc' = "rm_return"
    /\ UNCHANGED <<caller, bus, answer, mbuf, read_tries, device, resetSent,
                   nread, okFrames, errFrames, rpc, queue, wpc, recvCount, lastRecv,
                   rows, dbFails>>
    /\ UNCHANGED codecVars

\* read_module returns to the loop that called it.  Module prints and
\* breaks, or counts the try; Log breaks and starts the two tasks, or goes
\* round again.
RmReturn ==
    /\ pc = "rm_return"
    /\ bus' = <<>>
    /\ mbuf' = <<>>
    /\ answer' = <<>>
    /\ IF modres.tag = "Ok"
       THEN /\ device' = modres.module
            /\ read_tries' = read_tries
            /\ IF caller = "Module"
               THEN pc' = "done" /\ UNCHANGED <<rpc, wpc>>
               ELSE pc' = "stream" /\ rpc' = "read" /\ wpc' = "recv"
       ELSE /\ device' = device
            /\ UNCHANGED <<rpc, wpc>>
            /\ IF caller = "Module"
               THEN pc' = "module_loop" /\ read_tries' = read_tries + 1
               ELSE pc' = "log_loop" /\ read_tries' = read_tries
    /\ UNCHANGED <<caller, modres, resetSent,
                   nread, okFrames, errFrames, queue, recvCount, lastRecv,
                   rows, dbFails>>
    /\ UNCHANGED codecVars

\* Request::Measurement: one turn of for _ in 0..300.
MeasureRead(ok, value) ==
    /\ pc = "measure"
    /\ nread < MEASUREMENT_READS
    /\ IF ok
       THEN /\ nread' = nread + 1
            /\ IF MeasurementTryFrom(value).tag = "Ok"
               THEN okFrames' = okFrames + 1 /\ errFrames' = errFrames
               ELSE errFrames < MaxBad /\ errFrames' = errFrames + 1
                    /\ okFrames' = okFrames
            /\ pc' = pc
       ELSE /\ pc' = "failed"
            /\ UNCHANGED <<nread, okFrames, errFrames>>
    /\ UNCHANGED <<caller, bus, answer, mbuf, modres, read_tries, device, resetSent,
                   rpc, queue, wpc, recvCount, lastRecv, rows, dbFails>>
    /\ UNCHANGED codecVars

\* Request::Measurement: the for loop is over.
MeasureDone ==
    /\ pc = "measure"
    /\ nread = MEASUREMENT_READS
    /\ pc' = "done"
    /\ UNCHANGED <<caller, bus, answer, mbuf, modres, read_tries, device, resetSent,
                   nread, okFrames, errFrames, rpc, queue, wpc, recvCount, lastRecv,
                   rows, dbFails>>
    /\ UNCHANGED codecVars

\* Apc1Sensor::measurement: one call.
EmbeddedMeasurement(ok, value) ==
    /\ pc = "embedded"
    /\ nread < MaxFrames
    /\ IF ok
       THEN /\ nread' = nread + 1
            /\ IF MeasurementTryFrom(value).tag = "Ok"
               THEN okFrames' = okFrames + 1 /\ errFrames' = errFrames
               ELSE errFrames < MaxBad /\ errFrames' = errFrames + 1
                    /\ okFrames' = okFrames
       ELSE UNCHANGED <<nread, okFrames, errFrames>>
    /\ UNCHANGED <<caller, pc, bus, answer, mbuf, modres, read_tries, device, resetSent,
                   rpc, queue, wpc, recvCount, lastRecv, rows, dbFails>>
    /\ UNCHANGED codecVars

\* read_sensor: dev.read(&mut buf)? and the match on try_from.
ReaderRead(ok, value) ==
    /\ pc = "stream"
    /\ rpc = "read"
    /\ nread < MaxFrames
    /\ IF ok
       THEN /\ nread' = nread + 1
            /\ rpc' = ReadSensorAfterFrame(value)
            /\ IF MeasurementTryFrom(value).tag = "Ok"
               THEN okFrames' = okFrames + 1 /\ errFrames' = errFrames
               ELSE errFrames < MaxBad /\ errFrames' = errFrames + 1
                    /\ okFrames' = okFrames
       ELSE /\ rpc' = "stopped"
            /\ UNCHANGED <<nread, okFrames, errFrames>>
    /\ UNCHANGED <<caller, pc, bus, answer, mbuf, modres, read_tries, device, resetSent,
                   queue, wpc, recvCount, lastRecv, rows, dbFails>>
    /\ UNCHANGED codecVars

\* read_sensor: dest.blocking_send((measurement_time, measurement))? waits
\* for room; it fails once the receiver is gone.
ReaderSend ==
    /\ pc = "stream"
    /\ rpc = "send"
    /\ IF wpc = "done"
       THEN rpc' = "stopped" /\ queue' = queue
       ELSE /\ Len(queue) < CHANNEL_CAPACITY
            /\ queue' = ChannelSend(queue, okFrames)
            /\ rpc' = "read"
    /\ UNCHANGED <<caller, pc, bus, answer, mbuf, modres, read_tries, device, resetSent,
                   nread, okFrames, errFrames, wpc, recvCount, lastRecv, rows, dbFails>>
    /\ UNCHANGED codecVars

\* write_results: receiver.recv().await is Some(..); the INSERT is executed
\* and its outcome logged.
WriterRecv(ok) ==
    /\ pc = "stream"
    /\ wpc = "recv"
    /\ queue # <<>>
    /\ ~ok => dbFails < MaxDbFails
    /\ lastRecv' = ChannelRecv(queue)
    /\ queue' = ChannelRest(queue)
    /\ recvCount' = recvCount + 1
    /\ rows' = RowsAfterInsert(rows, ok)
    /\ dbFails' = (IF ok THEN dbFails ELSE dbFails + 1)
    /\ UNCHANGED <<caller, pc, bus, answer, mbuf, modres, read_tries, device, resetSent,
                   nread, okFrames, errFrames, rpc, wpc>>
    /\ UNCHANGED codecVars

\* write_results: recv().await is None, the channel being empty and the
\* sender dropped; Ok(()).
WriterClose ==
    /\ pc = "stream"
    /\ wpc = "recv"
    /\ ChannelClosed(queue, rpc = "stopped")
    /\ wpc' = "done"
    /\ UNCHANGED <<caller, pc, bus, answer, mbuf, modres, read_tries, device, resetSent,
                   nread, okFrames, errFrames, rpc, queue, recvCount, lastRecv,
                   rows, dbFails>>
    /\ UNCHANGED codecVars

\* tokio::join!(db_writer, sensor_reader) returns; Ok(()).
Join ==
    /\ pc = "stream"
    /\ wpc = "done"
    /\ rpc = "stopped"
    /\ pc' = "done"
    /\ UNCHANGED <<caller, bus, answer, mbuf, modres, read_tries, device, resetSent,
                   nread, okFrames, errFrames, rpc, queue, wpc, recvCount, lastRecv,
                   rows, dbFails>>
    /\ UNCHANGED codecVars

NextCli ==
    \/ \E ok \in BOOLEAN : Open(ok)
    \/ \E ok \in BOOLEAN : WriteReset(ok)
    \/ Dispatch
    \/ \E ok \in BOOLEAN : Connect(ok)
    \/ Bail
    \/ \E value \in ModuleAnswers : CallReadModule(value)
    \/ \E ok \in BOOLEAN : RmWrite(ok)
    \/ \E ok \in BOOLEAN : RmRead(ok)
    \/ RmDecode
    \/ RmReturn
    \/ \E ok \in BOOLEAN : \E value \in StreamFrames : MeasureRead(ok, value)
    \/ MeasureDone
    \/ \E ok \in BOOLEAN : \E value \in StreamFrames : EmbeddedMeasurement(ok, value)
    \/ \E ok \in BOOLEAN : \E value \in StreamFrames : ReaderRead(ok, value)
    \/ ReaderSend
    \/ \E ok \in BOOLEAN : WriterRecv(ok)
    \/ WriterClose
    \/ Join

SpecCli == InitCli /\ [][NextCli]_vars

\* The caller is scheduled as long as it can take a step: neither task of
\* Log, nor main, is starved.
FairSpecCli == InitCli /\ [][NextCli]_vars /\ WF_vars(NextCli)

-----------------------------------------------------------------------------
(* What the specification says of a frame, stated without the decoders.    *)

\* The sum of b[lo..hi] as natural numbers, nothing wrapped.
RECURSIVE SumRange(_, _, _)
SumRange(b, lo, hi) ==
    IF lo > hi THEN 0
    ELSE IF lo = hi THEN b[lo]
    ELSE SumRange(b, lo, (lo + hi) \div 2) + SumRange(b, (lo + hi) \div 2 + 1, hi)

\* The sum of the first n bytes of b.
ByteSum(b, n) == SumRange(b, 1, n)

\* be16 of the last two bytes.
StoredChecksum(b) == 256 * b[Len(b) - 1] + b[Len(b)]

ChecksumMatches(b) == StoredChecksum(b) = ByteSum(b, Len(b) - 2) % 65536

HeaderMatches(kind, b) ==
    /\ b[1] = 66
    /\ b[2] = 77
    /\ b[3] = 0
    /\ b[4] = (IF kind = "module" THEN 19 ELSE 60)

ValidFrame(kind, b) ==
    /\ ChecksumMatches(b)
    /\ HeaderMatches(kind, b)
    /\ (kind = "measurement" => b[62] = 0)

\* A frame has been read and decoded.
Decoded == stage # "idle"

\* The characters of a UTF-8 string of code points below 256.
RECURSIVE Utf8Chars(_)
Utf8Chars(s) ==
    IF s = <<>> THEN <<>>
    ELSE IF s[1] < 128 THEN <<s[1]>> \o Utf8Chars(Tail(s))
    ELSE <<(s[1] - 192) * 64 + (s[2] - 128)>> \o Utf8Chars(Tail(Tail(s)))

\* The eight bytes, most significant first, of a u64 kept as four limbs.
LimbBytes(limbs) ==
    << limbs[1] \div 256, limbs[1] % 256, limbs[2] \div 256, limbs[2] % 256,
       limbs[3] \div 256, limbs[3] % 256, limbs[4] \div 256, limbs[4] % 256 >>

\* Quotient and remainder of a four-limb number divided by ten.
DivTen(limbs) ==
    LET n1 == limbs[1]
        n2 == (n1 % 10) * 65536 + limbs[2]
        n3 == (n2 % 10) * 65536 + limbs[3]
        n4 == (n3 % 10) * 65536 + limbs[4]
    IN  [q |-> <<n1 \div 10, n2 \div 10, n3 \div 10, n4 \div 10>>, r |-> n4 % 10]

\* The decimal digits of a four-limb number.
RECURSIVE Decimal(_)
Decimal(limbs) ==
    IF limbs = <<0, 0, 0, 0>> THEN <<>>
    ELSE Decimal(DivTen(limbs).q) \o <<DivTen(limbs).r>>

-----------------------------------------------------------------------------
(* Claims.                                                                 *)

\* C1: a decoded frame is Ok exactly when its trailing checksum equals the
\* sum of the bytes before it mod 2^16, its first four bytes are the header
\* of its shape and, for a measurement frame, byte 61 is zero; no other byte
\* of the buffer decides acceptance.
C1_OkIffValid ==
    Decoded => (res.tag = "Ok" <=> ValidFrame(frame, buf))

\* C1 witness: a module frame with a name byte outside ASCII is accepted.
C1_Witness ==
    /\ frame = "module"
    /\ res.tag = "Ok"
    /\ At(buf, 5) = 128
    /\ last.op = "seal"

\* C2: the first failing check is reported, in the order checksum, header,
\* device error.
C2_ValidationOrder ==
    Decoded =>
        /\ ~ChecksumMatches(buf) => res.tag = "Checksum"
        /\ (ChecksumMatches(buf) /\ ~HeaderMatches(frame, buf)) => res.tag = "InvalidHeader"
        /\ res.tag = "Device" => (ChecksumMatches(buf) /\ HeaderMatches(frame, buf))

\* C2 witness: checksum, header and error byte all bad; Checksum is reported.
C2_Witness ==
    /\ frame = "measurement"
    /\ ~ChecksumMatches(buf)
    /\ ~HeaderMatches(frame, buf)
    /\ At(buf, 61) # 0
    /\ res.tag = "Checksum"

\* C3: Error::Checksum carries the stored big-endian value as expected and
\* the sum mod 2^16 as actual, the two differ, and a valid frame with one
\* byte of the checksummed region raised by one gives actual = expected + 1
\* (2107/2108 and 1564/1565 for the frames of the tests).
C3_ChecksumErrorFields ==
    Decoded =>
        /\ res.tag = "Checksum" =>
              /\ res.expected = StoredChecksum(buf)
              /\ res.actual = ByteSum(buf, Len(buf) - 2) % 65536
              /\ res.expected # res.actual
        /\ (last.op = "inc" /\ ValidFrame(frame, sent)) =>
              /\ res.tag = "Checksum"
              /\ res.actual = res.expected + 1
        /\ buf = InvalidChecksumMeasurement =>
              res = [tag |-> "Checksum", expected |-> 2107, actual |-> 2108]
        /\ buf = InvalidChecksumModule =>
              res = [tag |-> "Checksum", expected |-> 1564, actual |-> 1565]

\* C3 witness: byte 11 of the valid measurement of the tests raised by one.
C3_Witness ==
    /\ last = [op |-> "inc", pos |-> 11, bit |-> 0]
    /\ sent = ValidMeasurement
    /\ buf = InvalidChecksumMeasurement
    /\ res.tag = "Checksum"
    /\ res.actual = 2108

\* The 16-bit fields of a measurement and the offset of each.
MeasurementLayout16 ==
    { <<"pm1_0", 4>>, <<"pm2_5", 6>>, <<"pm10", 8>>, <<"pm1_0_in_air", 10>>,
      <<"pm2_5_in_air", 12>>, <<"pm10_in_air", 14>>, <<"um_0_3_particles", 16>>,
      <<"um_0_5_particles", 18>>, <<"um_1_particles", 20>>, <<"um_2_5_particles", 22>>,
      <<"um_5_particles", 24>>, <<"um_10_particles", 26>>, <<"tvoc", 28>>,
      <<"eco2", 30>>, <<"_reserved", 32>>, <<"t_comp", 34>>, <<"rh_comp", 36>>,
      <<"t_raw", 38>>, <<"rh_raw", 40>> }

\* The 32-bit fields of a measurement and the offset of each.
MeasurementLayout32 ==
    { <<"rs_0", 42>>, <<"rs_1", 46>>, <<"rs_2", 50>>, <<"rs_3", 54>> }

\* C4: every field of an accepted measurement is the big-endian value of its
\* own bytes: 16-bit fields at 4, 6, ..., 40, 32-bit fields at 42, 46, 50,
\* 54, then aqi, the reserved byte and version at 58, 59, 60.
C4_FieldsPerLayout ==
    (Decoded /\ frame = "measurement" /\ res.tag = "Ok") =>
        /\ \A f \in MeasurementLayout16 :
              res.measurement[f[1]] = 256 * At(buf, f[2]) + At(buf, f[2] + 1)
        /\ \A f \in MeasurementLayout32 :
              res.measurement[f[1]] = << 256 * At(buf, f[2]) + At(buf, f[2] + 1),
                                         256 * At(buf, f[2] + 2) + At(buf, f[2] + 3) >>
        /\ res.measurement.aqi = At(buf, 58)
        /\ res.measurement.__reserved = At(buf, 59)
        /\ res.measurement.version = At(buf, 60)

\* C5: with checksum and header valid, a non-zero byte 61 gives Error::Device
\* carrying exactly that byte and nothing else; a zero byte 61 never does.
C5_DeviceError ==
    (Decoded /\ frame = "measurement") =>
        /\ (ChecksumMatches(buf) /\ HeaderMatches(frame, buf) /\ At(buf, 61) # 0) =>
              res = [tag |-> "Device", code |-> At(buf, 61)]
        /\ At(buf, 61) = 0 => res.tag # "Device"

\* C5 witness: a sealed measurement frame whose error byte is 64.
C5_Witness ==
    /\ frame = "measurement"
    /\ res.tag = "Device"
    /\ res.code = 64
    /\ At(buf, 61) = 64

\* C6: an accepted module frame gives name_and_type = the characters with
\* the codes b[4..10), serial_number = the big-endian value of b[10..18),
\* delimiter = b[18], fw_version_major = b[19], fw_version_minor = b[20];
\* the module frame of the tests gives "APC1-I", 607609401092424838, '-',
\* 0 and 35.
C6_ModuleFields ==
    (Decoded /\ frame = "module" /\ res.tag = "Ok") =>
        /\ Utf8Chars(res.module.name_and_type) = SubSeq(buf, 5, 10)
        /\ LimbBytes(res.module.serial_number) = SubSeq(buf, 11, 18)
        /\ res.module.delimiter = At(buf, 18)
        /\ res.module.fw_version_major = At(buf, 19)
        /\ res.module.fw_version_minor = At(buf, 20)
        /\ buf = ValidModule =>
              /\ res.module.name_and_type = <<65, 80, 67, 49, 45, 73>>
              /\ Decimal(res.module.serial_number)
                    = <<6, 0, 7, 6, 0, 9, 4, 0, 1, 0, 9, 2, 4, 2, 4, 8, 3, 8>>
              /\ res.module.delimiter = 45
              /\ res.module.fw_version_major = 0
              /\ res.module.fw_version_minor = 35

\* C6 witness: an accepted module frame whose last name byte is 0xFF.
C6_Witness ==
    /\ frame = "module"
    /\ res.tag = "Ok"
    /\ At(buf, 9) = 255
    /\ Len(res.module.name_and_type) = 7

\* C7: the last two bytes of every encoded command are the big-endian sum
\* mod 2^16 of its first five bytes.
C7_CommandChecksum ==
    request # NoRequest =>
        /\ Len(request.bytes) = 7
        /\ 256 * request.bytes[6] + request.bytes[7] = ByteSum(request.bytes, 5) % 65536
        /\ request.bytes[6] = (ByteSum(request.bytes, 5) % 65536) \div 256

\* C7 witness: the UART SetActiveMeasurement command has been encoded.
C7_Witness ==
    /\ request.set = "uart"
    /\ request.cmd = "SetActiveMeasurement"
    /\ Len(request.bytes) = 7

\* The opcode and Mode Low the specification gives each command.
CommandTable ==
    [ SetIdleMode           |-> <<228, 0>>,
      SetActiveMode         |-> <<228, 1>>,
      Reset                 |-> <<228, 15>>,
      ReadModuleId          |-> <<233, 0>>,
      SetActiveMeasurement  |-> <<225, 1>>,
      SetPassiveMeasurement |-> <<225, 0>>,
      RequestMeasurement    |-> <<226, 0>> ]

\* C8: every command encodes to seven bytes 0x42, 0x4D, opcode, 0, mode low
\* and the checksum, with opcode and mode low as tabulated; no I2C command
\* has opcode 0xE1 or 0xE2, no UART command has mode 0x0F, and the I2C Reset
\* is 0x42 0x4D 0xE4 0x00 0x0F 0x01 0x82.
C8_CommandLayout ==
    request # NoRequest =>
        /\ Len(request.bytes) = 7
        /\ SubSeq(request.bytes, 1, 5)
              = <<66, 77, CommandTable[request.cmd][1], 0, CommandTable[request.cmd][2]>>
        /\ request.set = "i2c" => request.bytes[3] \notin {225, 226}
        /\ request.set = "uart" => request.bytes[5] # 15
        /\ (request.set = "i2c" /\ request.cmd = "Reset") =>
              request.bytes = <<66, 77, 228, 0, 15, 1, 130>>

\* C8 witness: the I2C Reset command has been encoded.
C8_Witness ==
    /\ request.set = "i2c"
    /\ request.cmd = "Reset"
    /\ request.bytes[5] = 15

\* C9: a valid frame with any one bit flipped decodes to Error::Checksum.
C9_SingleBitFlip ==
    (last.op = "flip" /\ ValidFrame(frame, sent)) => res.tag = "Checksum"

\* C9 witness: bit 3 of the error byte of a valid measurement frame flipped.
C9_Witness ==
    /\ frame = "measurement"
    /\ last = [op |-> "flip", pos |-> 61, bit |-> 3]
    /\ ValidFrame(frame, sent)
    /\ res.tag = "Checksum"

\* C10: for each fault k in 0..6 the value displayed for it is a boolean,
\* true exactly when bit k of the error byte is set.
C10_FaultFlags ==
    shown # NoDisplay =>
        \A k \in 0..6 :
            shown.lines[k].value = (IF Bit(shown.code, k) = 1 THEN "true" ELSE "false")

\* The big-endian pair of the sum of the first n bytes of b mod 2^16.
SumBe16(b, n) == <<(ByteSum(b, n) % 65536) \div 256, (ByteSum(b, n) % 65536) % 256>>

\* The checksum the decoder of this shape computes for a buffer.
ActualChecksum(kind, value) ==
    IF kind = "module" THEN ModuleActualChecksum(value) ELSE MeasurementActualChecksum(value)

\* C11: the checksum of the encoder and the checksums computed inside the two
\* decoders are one function: for any bytes the result is the sum of the
\* bytes mod 2^16 (a sum beyond 2^16 wraps around), and the encoder writes
\* it high byte first: the two bytes calculate_checksum put at the end of a
\* sealed frame are the high and the low byte of the decoder's sum.
C11_OneChecksum ==
    /\ Decoded => ActualChecksum(frame, buf) = ByteSum(buf, Len(buf) - 2) % 65536
    /\ stage = "sealed" =>
          <<buf[Len(buf) - 1], buf[Len(buf)]>> = U16ToBe(ActualChecksum(frame, buf))
    /\ probe # NoProbe => probe.sum = SumBe16(probe.payload, Len(probe.payload))

\* A payload whose bytes sum to more than 2^16 has been summed.
C11_Witness ==
    /\ probe # NoProbe
    /\ ByteSum(probe.payload, Len(probe.payload)) > 65536
    /\ probe.sum = SumBe16(probe.payload, Len(probe.payload))

\* The first four bytes and, in a measurement frame, byte 61 are the same
\* in both buffers.
SameHeaderAndFlag(kind, a, b) ==
    /\ SubSeq(a, 1, 4) = SubSeq(b, 1, 4)
    /\ kind = "measurement" => a[62] = b[62]

\* C12: transposing two bytes of the checksummed region leaves the computed
\* checksum as it was, so the checksum stage passes or fails as before; a
\* valid frame with two bytes transposed whose header bytes and error byte
\* kept their values still decodes Ok.
C12_Transposition ==
    last.op = "swap" =>
        /\ ActualChecksum(frame, buf) = ActualChecksum(frame, sent)
        /\ (res.tag = "Checksum") <=> (TryFrom(frame, sent).tag = "Checksum")
        /\ (ValidFrame(frame, sent) /\ SameHeaderAndFlag(frame, sent, buf)) => res.tag = "Ok"

\* Two different data bytes of a valid measurement frame were transposed.
C12_Witness ==
    /\ last.op = "swap"
    /\ frame = "measurement"
    /\ last.pos > 3
    /\ buf # sent
    /\ ValidFrame(frame, sent)
    /\ SameHeaderAndFlag(frame, sent, buf)
    /\ res.tag = "Ok"

\* C13: each module-detection loop of the command line tool, that of Module
\* and that of Log, retries read_module after an error only a bounded number
\* of times and then gives up with a failure: once in its loop, the caller
\* leaves it, with a module or with a failure.
C13_DetectionEnds ==
    (pc \in {"module_loop", "log_loop"}) ~> (pc \in {"done", "failed", "stream"})

\* The loop of Module is left in the end, by break or by bail.
ModuleDetectionEnds ==
    (pc = "module_loop") ~> (pc \in {"done", "failed"})

\* The measurements read_sensor accepted and has not yet sent, sent and not
\* yet received, or received.
Accepted == recvCount + Len(queue) + (IF rpc = "send" THEN 1 ELSE 0)

\* C14, as claimed: in logging mode every frame that decodes Ok becomes
\* exactly one row and every frame that fails to decode none, so that every
\* measurement the writer took is a row and, the writer having finished, the
\* rows are as many as the frames that decoded Ok, also after a failed insert.
C14_RowPerAccepted ==
    caller = "Log" =>
        /\ nread = okFrames + errFrames
        /\ Accepted = okFrames
        /\ rows = recvCount
        /\ wpc = "done" => rows = okFrames

\* C14, amended: every frame that fails to decode becomes no row, and every
\* frame that decodes Ok is handed to the writer once and becomes one row if
\* its insert succeeds and none if its insert fails: the rows are as many as
\* the measurements received less the failed inserts.
C14_RowPerInsert ==
    caller = "Log" =>
        /\ nread = okFrames + errFrames
        /\ Accepted = okFrames
        /\ rows + dbFails = recvCount
        /\ wpc = "done" => rows = okFrames - dbFails

\* The writer has finished after frames that decoded, frames that did not,
\* inserts that succeeded and an insert that failed.
C14_Witness ==
    /\ caller = "Log"
    /\ wpc = "done"
    /\ errFrames > 0
    /\ dbFails > 0
    /\ rows > 0
    /\ rows = okFrames - dbFails

\* A frame was read in this step and failed to decode.
DecodeErrorStep == errFrames' = errFrames + 1

\* The bus read of this step failed: no frame arrived.
TransportFailureStep == UNCHANGED <<nread, okFrames, errFrames>>

\* C15: while streaming, a frame that fails to decode never ends the stream:
\* after it read_sensor is back at its read and the Measurement subcommand
\* still in its loop, which it leaves in success only after all 300 reads;
\* the stream ends early only in a step whose bus read failed.
C15_DecodeErrorKeepsStream ==
    [][ /\ DecodeErrorStep => /\ pc' = pc
                              /\ caller = "Log" => rpc' = "read"
        /\ (rpc \in {"read", "send"} /\ rpc' = "stopped") =>
              rpc = "read" /\ TransportFailureStep
        /\ (pc = "measure" /\ pc' # "measure") =>
              \/ pc' = "done" /\ nread = MEASUREMENT_READS
              \/ pc' = "failed" /\ TransportFailureStep ]_vars

\* read_sensor is at its read again, frames having failed to decode and
\* measurements having been accepted.
C15_Witness ==
    /\ caller = "Log"
    /\ pc = "stream"
    /\ rpc = "read"
    /\ errFrames = MaxBad
    /\ okFrames > 0
    /\ nread < MaxFrames

\* C16: every caller goes from unknown through Reset sent and module
\* detected to streaming: no measurement frame has been read and decoded
\* unless the seven bytes of Reset were written and a ReadModuleId response
\* was decoded Ok before.
C16_ResetAndModuleFirst ==
    nread > 0 => resetSent /\ device # NoResult

\* The Log subcommand alone keeps to that order.
LogResetAndModuleFirst ==
    (caller = "Log" /\ nread > 0) => resetSent /\ device # NoResult

\* read_module is running or about to return.
InReadModule == pc \in {"rm_write", "rm_read", "rm_decode", "rm_return"}

\* The seven bytes of ReadModuleId as section 5 gives them.
ReadModuleIdBytes == <<66, 77, 233, 0, 0, 1, 120>>

\* C17: in read_module the seven bytes of ReadModuleId are written in order
\* to the registers 0x40..0x46 before the first of the 23 response bytes is
\* read from 0x47..0x5D; after a failed write no response byte is read and
\* nothing decoded, and after a failed read the partly filled buffer is not
\* decoded: a decode follows seven writes and 23 reads and no failure.
C17_WritesBeforeReads ==
    InReadModule =>
        /\ Len(bus) <= 30
        /\ \A k \in 1..Len(bus) :
              IF k <= 7
              THEN bus[k] = [op |-> "w", reg |-> 63 + k, val |-> ReadModuleIdBytes[k]]
              ELSE bus[k] = [op |-> "r", reg |-> 63 + k, val |-> answer[k - 7]]
        /\ pc = "rm_read" => Len(bus) \in 7..29
        /\ (pc = "rm_decode" \/ modres.tag \notin {"None", "Bus"}) =>
              /\ Len(bus) = 30
              /\ mbuf = answer
        /\ modres.tag = "Bus" => pc = "rm_return" /\ Len(bus) < 30
        /\ pc = "rm_return" => modres.tag # "None"

\* read_module is about to return the module it decoded from 23 bytes read
\* after seven bytes written.
C17_Witness ==
    /\ pc = "rm_return"
    /\ modres.tag = "Ok"
    /\ Len(bus) = 30
    /\ bus[7].op = "w"
    /\ bus[8] = [op |-> "r", reg |-> 71, val |-> 66]

\* read_module is about to return the failure of its fourth write, nothing
\* read.
WriteFailureReturned ==
    /\ pc = "rm_return"
    /\ modres.tag = "Bus"
    /\ Len(bus) = 3

\* C18: in logging mode the accepted measurements, numbered as read_sensor
\* accepted them, reach the writer in that order, each once: the channel
\* holds at most 64, in order, the ones that follow the last one received,
\* and none is dropped when the channel is full, the reader waiting with its
\* measurement instead.
C18_ChannelOrder ==
    caller = "Log" =>
        /\ Len(queue) <= 64
        /\ queue = [i \in 1..Len(queue) |-> recvCount + i]
        /\ lastRecv = recvCount
        /\ okFrames = recvCount + Len(queue) + (IF rpc = "send" THEN 1 ELSE 0)

\* The channel is full and read_sensor waits in blocking_send with the next
\* measurement, the writer having received some already.
C18_Witness ==
    /\ caller = "Log"
    /\ Len(queue) = 64
    /\ rpc = "send"
    /\ recvCount > 0
    /\ errFrames > 0

\* C19: once read_sensor has stopped and its sender is dropped, every
\* measurement still in the channel is handed to the writer, and then the
\* writer finds the channel closed and returns; the writer never returns
\* while read_sensor runs, and a failed insert does not stop it.
C19_DrainThenClose ==
    /\ [](wpc = "done" => /\ rpc = "stopped"
                          /\ queue = <<>>
                          /\ recvCount = okFrames)
    /\ [][dbFails' # dbFails => wpc' = "recv"]_vars
    /\ (rpc = "stopped") ~> (wpc = "done" /\ recvCount = okFrames)

\* The writer has returned after read_sensor stopped with measurements in
\* the channel, one of whose inserts failed.
C19_Witness ==
    /\ caller = "Log"
    /\ wpc = "done"
    /\ rpc = "stopped"
    /\ queue = <<>>
    /\ recvCount = okFrames
    /\ okFrames > 1
    /\ dbFails > 0

=============================================================================
